---- MODULE Spec2Model ----
(***************************************************************************)
(* Model of bot_metiers.py: the profession roster store, the dashboard     *)
(* projection/rendering and the interactive view state machine.            *)
(*                                                                         *)
(* Python strings are modelled as sequences of one-character strings, so   *)
(* that lower(), strip() and replace() are computed character by           *)
(* character.                                                              *)
(***************************************************************************)
EXTENDS Integers, Sequences, FiniteSets, TLC

\* Optional[str]: None is the empty tuple, a present value x is <<x>>.
\* (A str is itself a tuple of characters, so Some(<<>>) is the empty string.)
NoneVal == <<>>

Some(x) == <<x>>

\* A missing BIGINT (the None of "(None, None)"); real ids are positive.
NoId == 0

(***************************************************************************)
(* Characters.  LowerLetters[i] is str.lower() of UpperLetters[i].         *)
(***************************************************************************)
UpperLetters ==
    << "A","B","C","D","E","F","G","H","I","J","K","L","M","N","O","P","Q",
       "R","S","T","U","V","W","X","Y","Z",
       "À","Â","Ä","Ç","È","É","Ê","Ë","Î","Ï","Ô","Ö","Ù","Û","Ü" >>

LowerLetters ==
    << "a","b","c","d","e","f","g","h","i","j","k","l","m","n","o","p","q",
       "r","s","t","u","v","w","x","y","z",
       "à","â","ä","ç","è","é","ê","ë","î","ï","ô","ö","ù","û","ü" >>

Whitespace == {" "}

\* Code point order of the characters (used by Python's string comparison).
CodePoints == <<" ">> \o UpperLetters \o LowerLetters

CodePointOf ==
    [c \in { CodePoints[i] : i \in 1..Len(CodePoints) } |->
        CHOOSE i \in 1..Len(CodePoints) : CodePoints[i] = c]

CodePoint(c) == CodePointOf[c]

LowerOf ==
    [c \in { UpperLetters[i] : i \in 1..Len(UpperLetters) } |->
        LowerLetters[CHOOSE i \in 1..Len(UpperLetters) : UpperLetters[i] = c]]

UpperOf ==
    [c \in { LowerLetters[i] : i \in 1..Len(LowerLetters) } |->
        UpperLetters[CHOOSE i \in 1..Len(LowerLetters) : LowerLetters[i] = c]]

lower(c) == IF c \in DOMAIN LowerOf THEN LowerOf[c] ELSE c

upper(c) == IF c \in DOMAIN UpperOf THEN UpperOf[c] ELSE c

str_lower(s) == [i \in 1..Len(s) |-> lower(s[i])]

str_upper(s) == [i \in 1..Len(s) |-> upper(s[i])]

str_capitalize(s) ==
    [i \in 1..Len(s) |-> IF i = 1 THEN upper(s[i]) ELSE lower(s[i])]

RECURSIVE lstrip(_)
lstrip(s) ==
    IF s # <<>> /\ Head(s) \in Whitespace THEN lstrip(Tail(s)) ELSE s

RECURSIVE rstrip(_)
rstrip(s) ==
    IF s # <<>> /\ s[Len(s)] \in Whitespace
    THEN rstrip(SubSeq(s, 1, Len(s) - 1))
    ELSE s

str_strip(s) == rstrip(lstrip(s))

str_replace(s, a, b) == [i \in 1..Len(s) |-> IF s[i] = a THEN b ELSE s[i]]

\* s1 < s2 in Python's lexicographic string order.
RECURSIVE str_less(_, _)
str_less(s1, s2) ==
    IF s2 = <<>> THEN FALSE
    ELSE IF s1 = <<>> THEN TRUE
    ELSE IF Head(s1) # Head(s2) THEN CodePoint(Head(s1)) < CodePoint(Head(s2))
    ELSE str_less(Tail(s1), Tail(s2))

(***************************************************************************)
(* Program constants.                                                      *)
(***************************************************************************)
GUILD_ROLES_CAN_EDIT_OTHERS == {"Lead", "Murmureur"}

CARDS_PER_PAGE == 6

\* The items of the dict literal, in insertion order.  The emoji values are
\* written by colour: green, blue and red circles.
EMOJI_ITEMS ==
    << << <<"a","l","c","h","i","m","i","s","t","e">>, "green" >>,
       << <<"b","û","c","h","e","r","o","n">>, "green" >>,
       << <<"c","h","a","s","s","e","u","r">>, "green" >>,
       << <<"m","i","n","e","u","r">>, "green" >>,
       << <<"p","a","y","s","a","n">>, "green" >>,
       << <<"p","ê","c","h","e","u","r">>, "green" >>,
       << <<"b","i","j","o","u","t","i","e","r">>, "blue" >>,
       << <<"j","o","a","i","l","l","o","m","a","g","e">>, "red" >>,
       << <<"c","o","r","d","o","n","n","i","e","r">>, "blue" >>,
       << <<"c","o","r","d","o","m","a","g","e">>, "red" >>,
       << <<"t","a","i","l","l","e","u","r">>, "blue" >>,
       << <<"c","o","s","t","u","m","a","g","e">>, "red" >>,
       << <<"f","o","r","g","e","r","o","n">>, "blue" >>,
       << <<"f","o","r","g","e","m","a","g","e">>, "red" >>,
       << <<"f","a","ç","o","n","n","e","u","r">>, "blue" >>,
       << <<"f","a","ç","o","m","a","g","e">>, "red" >>,
       << <<"s","c","u","l","p","t","e","u","r">>, "blue" >>,
       << <<"s","c","u","l","p","t","e","m","a","g","e">>, "red" >>,
       << <<"b","r","i","c","o","l","e","u","r">>, "blue" >> >>

\* The keys of EMOJI_BY_METIER ("x in EMOJI_BY_METIER" tests the keys).
EMOJI_BY_METIER == { EMOJI_ITEMS[i][1] : i \in 1..Len(EMOJI_ITEMS) }

ACCENT_MAP ==
    << <<"é","e">>, <<"è","e">>, <<"ê","e">>, <<"à","a">>, <<"ù","u">>,
       <<"ô","o">>, <<"û","u">>, <<"î","i">>, <<"ï","i">>, <<"ç","c">>,
       <<"ä","a">>, <<"ë","e">>, <<"ö","o">>, <<"ü","u">> >>

RECURSIVE replace_all(_, _)
replace_all(s, items) ==
    IF items = <<>> THEN s
    ELSE replace_all(str_replace(s, Head(items)[1], Head(items)[2]), Tail(items))

\* Mutant of norm: the accents are replaced before the string is lowered.
norm_ReplaceFirst(s) == str_strip(str_lower(replace_all(s, ACCENT_MAP)))

norm(s) == replace_all(str_strip(str_lower(s)), ACCENT_MAP)

display_metier(name) ==
    LET n == norm(name)
        emoji == IF \E i \in 1..Len(EMOJI_ITEMS) : EMOJI_ITEMS[i][1] = n
                 THEN EMOJI_ITEMS[CHOOSE i \in 1..Len(EMOJI_ITEMS) :
                                      EMOJI_ITEMS[i][1] = n][2]
                 ELSE "tools"
    IN  << emoji, str_capitalize(name) >>

(***************************************************************************)
(* class DB.  The three tables are sets of rows; every operation is one    *)
(* SQL statement.                                                          *)
(***************************************************************************)
set_profile_name(P, guild_id, user_id, name) ==
    { r \in P : ~(r.guild_id = guild_id /\ r.user_id = user_id) }
    \cup { [guild_id |-> guild_id, user_id |-> user_id, dofus_name |-> name] }

get_profile_name(P, guild_id, user_id) ==
    IF \E r \in P : r.guild_id = guild_id /\ r.user_id = user_id
    THEN Some((CHOOSE r \in P : r.guild_id = guild_id /\ r.user_id = user_id).dofus_name)
    ELSE NoneVal

set_job(J, guild_id, user_id, job, level) ==
    LET k == norm(job)
    IN  { r \in J : ~(r.guild_id = guild_id /\ r.user_id = user_id /\ r.job_name = k) }
        \cup { [guild_id |-> guild_id, user_id |-> user_id,
                job_name |-> k, level |-> level] }

\* Mutant of remove_job: the DELETE does not test user_id.
remove_job_AnyUser(J, guild_id, user_id, job) ==
    { r \in J : ~(r.guild_id = guild_id /\ r.job_name = norm(job)) }

remove_job(J, guild_id, user_id, job) ==
    LET k == norm(job)
    IN  { r \in J : ~(r.guild_id = guild_id /\ r.user_id = user_id /\ r.job_name = k) }

\* key=lambda r: (-r[1], r[0]) on (job_name, level) pairs.
JobBefore(a, b) == a[2] > b[2] \/ (a[2] = b[2] /\ str_less(a[1], b[1]))

RECURSIVE SortedJobs(_)
SortedJobs(S) ==
    IF S = {} THEN <<>>
    ELSE LET m == CHOOSE x \in S : \A y \in S \ {x} : JobBefore(x, y)
         IN  <<m>> \o SortedJobs(S \ {m})

RECURSIVE SumLevels(_)
SumLevels(js) == IF js = <<>> THEN 0 ELSE Head(js)[2] + SumLevels(Tail(js))

list_user_jobs(J, guild_id, user_id) ==
    SortedJobs({ <<r.job_name, r.level>> :
                 r \in { x \in J : x.guild_id = guild_id /\ x.user_id = user_id } })

\* Mutant of EntryBefore: the entries are ordered by user id alone.
EntryBefore_ByUid(a, b) == a.uid < b.uid

\* avg is the quotient sum/len, kept exact as the pair <<sum, len>>.
\* key=lambda x: (-x[3], x[0]).
EntryBefore(a, b) ==
    \/ a.avg[1] * b.avg[2] > b.avg[1] * a.avg[2]
    \/ (a.avg[1] * b.avg[2] = b.avg[1] * a.avg[2] /\ a.uid < b.uid)

RECURSIVE SortedEntries(_)
SortedEntries(S) ==
    IF S = {} THEN <<>>
    ELSE LET m == CHOOSE x \in S : \A y \in S \ {x} : EntryBefore(x, y)
         IN  <<m>> \o SortedEntries(S \ {m})

roster(J, P, guild_id) ==
    LET rows == { r \in J : r.guild_id = guild_id }
        uids == { r.user_id : r \in rows }
        entry(u) ==
            LET js == SortedJobs({ <<r.job_name, r.level>> :
                                   r \in { x \in rows : x.user_id = u } })
            IN  [uid  |-> u,
                 name |-> get_profile_name(P, guild_id, u),
                 jobs |-> js,
                 avg  |-> << SumLevels(js), Len(js) >>]
    IN  SortedEntries({ entry(u) : u \in uids })

get_dashboard(S, guild_id) ==
    IF \E r \in S : r.guild_id = guild_id
    THEN LET r == CHOOSE x \in S : x.guild_id = guild_id
         IN  << r.dashboard_channel_id, r.dashboard_message_id >>
    ELSE << NoId, NoId >>

set_dashboard(S, guild_id, channel_id, message_id) ==
    { r \in S : r.guild_id # guild_id }
    \cup { [guild_id |-> guild_id, dashboard_channel_id |-> channel_id,
            dashboard_message_id |-> message_id] }

(***************************************************************************)
(* build_dashboard_embed, on the roster it has read.                       *)
(***************************************************************************)
Max(a, b) == IF a > b THEN a ELSE b

Min(a, b) == IF a < b THEN a ELSE b

\* Mutant of CeilDiv: the quotient is rounded down.
CeilDiv_Floor(n, d) == n \div d

\* math.ceil(n / d) for n >= 0, d > 0.
CeilDiv(n, d) == (n + d - 1) \div d

\* job_filter is Optional[str]; "if job_filter" is false for None and "".
job_filter_norm_of(job_filter) ==
    IF job_filter # NoneVal /\ job_filter[1] # <<>>
    THEN norm(job_filter[1]) ELSE NoneVal

\* "if job_filter_norm" is false for None and "" too.
FilterActive(job_filter) ==
    LET n == job_filter_norm_of(job_filter) IN n # NoneVal /\ n # <<>>

filter_label_of(job_filter) ==
    LET n == job_filter_norm_of(job_filter)
        hits == { i \in 1..Len(EMOJI_ITEMS) : norm(EMOJI_ITEMS[i][1]) = n }
    IN  IF ~FilterActive(job_filter) THEN NoneVal
        ELSE IF hits # {}
        THEN Some(display_metier(EMOJI_ITEMS[CHOOSE i \in hits :
                                              \A j \in hits : i <= j][1]))
        ELSE Some(<< "none", str_capitalize(job_filter[1]) >>)

\* Mutant of filtered_roster: no entry is dropped.
filtered_roster_KeepAll(R, job_filter) == R

filtered_roster(R, job_filter) ==
    LET n == job_filter_norm_of(job_filter)
        Keep(e) == \E i \in 1..Len(e.jobs) : norm(e.jobs[i][1]) = n
        Match(j) == norm(j[1]) = n
        kept == SelectSeq(R, Keep)
    IN  IF ~FilterActive(job_filter) THEN R
        ELSE [i \in 1..Len(kept) |->
                [kept[i] EXCEPT !.jobs = SelectSeq(kept[i].jobs, Match)]]

total_pages_of(R, job_filter) ==
    Max(1, CeilDiv(Len(filtered_roster(R, job_filter)), CARDS_PER_PAGE))

\* Mutant of clamp_page: the page is not capped at the last page.
clamp_page_NoCap(page, total_pages) == Max(0, page)

clamp_page(page, total_pages) == Max(0, Min(page, total_pages - 1))

\* The embed: the title's filter label, "N profils", "Page X/Y" (page kept
\* 0-based here, displayed as page+1), and one field per card with lines.
\* The function returns (embed, total_pages): total_pages is a field here.
build_dashboard_embed(R, page, job_filter) ==
    LET n == job_filter_norm_of(job_filter)
        active == FilterActive(job_filter)
        fr == filtered_roster(R, job_filter)
        total_pages == Max(1, CeilDiv(Len(fr), CARDS_PER_PAGE))
        p == clamp_page(page, total_pages)
        start == p * CARDS_PER_PAGE
        chunk == SubSeq(fr, start + 1, Min(Len(fr), start + CARDS_PER_PAGE))
        Match(j) == norm(j[1]) = n
        card(e) == [uid |-> e.uid, name |-> e.name,
                    lines |-> IF active THEN SelectSeq(e.jobs, Match) ELSE e.jobs]
        HasLines(c) == c.lines # <<>>
    IN  [filter      |-> IF active THEN n ELSE NoneVal,
         label       |-> filter_label_of(job_filter),
         count       |-> Len(fr),
         page        |-> p,
         total_pages |-> total_pages,
         empty       |-> chunk = <<>>,
         fields      |-> SelectSeq([i \in 1..Len(chunk) |-> card(chunk[i])], HasLines)]

(***************************************************************************)
(* class DashboardView: the state set by __init__.                         *)
(***************************************************************************)
DashboardView(guild_id, total_pages, current_page, selected_filter) ==
    [guild_id        |-> guild_id,
     total_pages     |-> Max(1, total_pages),
     current_page    |-> Max(0, Min(current_page, Max(1, total_pages) - 1)),
     selected_filter |-> selected_filter]

(***************************************************************************)
(* Bounds and input sets.                                                  *)
(***************************************************************************)
\* User ids are 1..NumUsers.
NumUsers == 7

\* Messages the bot may post in one guild.
MaxMessages == 1

ChannelsOf(g) == { 10 * g + 1, 10 * g + 2 }

RoleSets == { {"Membre"}, {"Lead"}, {"Murmureur", "Membre"} }

S_paysan == <<"p","a","y","s","a","n">>

S_mineur == <<"m","i","n","e","u","r">>

S_bucheron == <<"b","û","c","h","e","r","o","n">>

S_Paysan == <<" ","P","a","y","s","a","n">>

S_zzz == <<"z","z","z">>

S_all == <<"_","_","a","l","l">>

\* Values given for the "metier" parameter: a case/space variant of a
\* catalog key, a catalog key with an accent, a name that is no profession.
MetierInputs == { S_Paysan, S_bucheron, S_zzz }

LevelInputs == { 0, 200, 201 }

PseudoInputs == { <<"Z","e","d"," ">> }

\* Values of the filter select: "__all" and norm(m) of catalog keys.
FilterInputs == { S_all, <<"m","i","n","e","u","r">> }

Controls == { "prev", "next", "refresh", "filter" }

\* Where a handler's re-render of the dashboard can fail: resolving the
\* recorded channel/message, reading the roster, editing the message, and
\* editing it again to strip the controls.
Failures == { "none", "resolve", "render", "edit", "edit_all" }

(***************************************************************************)
(* State.                                                                  *)
(***************************************************************************)
VARIABLES
    jobs,        \* table jobs
    profiles,    \* table profiles
    settings,    \* table settings
    messages,    \* Discord messages posted by the bot, by message id
    views,       \* the bot's view store: message id -> Optional[DashboardView]
    persistent,  \* the view registered by setup_hook for all messages
    tasks,       \* the handlers suspended at an await of their re-render
    last         \* the last operation handled and what it answered

vars == << jobs, profiles, settings, messages, views, persistent, tasks, last >>

MessageIds == 1..Len(messages)

\* guild.get_channel(ch_id) or fetch_channel, then ch.fetch_message(msg_id).
Resolvable(g, ch_id, msg_id) ==
    /\ ch_id \in ChannelsOf(g)
    /\ msg_id \in MessageIds
    /\ messages[msg_id].channel = ch_id

\* The number of messages the bot has posted in guild g.
PostedIn(g) == Cardinality({ m \in MessageIds : messages[m].guild = g })

\* "if ch_id and msg_id"
Registered(S, g) ==
    get_dashboard(S, g)[1] # NoId /\ get_dashboard(S, g)[2] # NoId

\* The view an activation on message m is dispatched to: the view stored
\* for the message, else the persistent view.
ViewOf(m) == IF views[m] # NoneVal THEN views[m][1] ELSE persistent

\* op: the operation; user, roles, membre, metier, niveau: the inputs of a
\* command; msg: the message it rendered or tried to; responses: what the
\* invoking user was sent; fail: how the re-render ended; notice: whether
\* the diagnostic notice was posted in the channel; held: whether the target
\* of a remove command held the job.  For a control activation, shown: the
\* page the message displayed before it; fresh: whether the message then
\* displayed the projection of the roster in the store; run: how many "next"
\* activations of this message it ends in a row; origin: the page displayed
\* before the first of them (shown and fresh are those of the first, too).
NoOp ==
    [op |-> "init", guild |-> 0, user |-> 0, roles |-> {}, membre |-> 0,
     metier |-> <<>>, niveau |-> 0, msg |-> 0, responses |-> <<>>,
     fail |-> "none", notice |-> FALSE, held |-> FALSE,
     shown |-> 0, fresh |-> FALSE, run |-> 0, origin |-> 0]

\* The longest run of "next" activations that is counted; a longer run is
\* counted anew from its next activation.
MaxRun == 3

\* Whether message m displays the projection of the roster in the store.
Fresh(m) ==
    LET e == messages[m].embed
    IN  e = build_dashboard_embed(roster(jobs, profiles, messages[m].guild), e.page,
                                  IF e.filter = NoneVal THEN NoneVal ELSE Some(e.filter))

(***************************************************************************)
(* update_dashboard_message(bot, guild, message, page, job_filter), on the *)
(* roster R it reads.  It returns nothing and raises nothing; these are    *)
(* its effects on the message and on the view store.                       *)
(***************************************************************************)
udm_message(msgs, R, m, page, job_filter, fail) ==
    IF fail = "none"
    THEN [msgs EXCEPT ![m].embed = build_dashboard_embed(R, page, job_filter),
                      ![m].has_view = TRUE]
    ELSE IF fail \in {"render", "edit"}
    THEN [msgs EXCEPT ![m].has_view = FALSE]
    ELSE msgs

udm_views(vs, R, g, m, page, job_filter, fail) ==
    IF fail = "none"
    THEN [vs EXCEPT ![m] =
            Some(DashboardView(g, build_dashboard_embed(R, page, job_filter).total_pages,
                               page, job_filter))]
    ELSE vs

udm_notice(fail) == fail \in {"render", "edit"}

(***************************************************************************)
(* DashboardView callbacks.                                                *)
(***************************************************************************)
\* The (page, selected_filter) arguments each callback passes to update().
prev_btn_callback(v) ==
    [page |-> Some((v.current_page - 1) % v.total_pages), selected_filter |-> NoneVal]

next_btn_callback(v) ==
    [page |-> Some((v.current_page + 1) % v.total_pages), selected_filter |-> NoneVal]

refresh_btn_callback(v) == [page |-> NoneVal, selected_filter |-> NoneVal]

select_callback(v, val) ==
    [page |-> Some(0), selected_filter |-> IF val = S_all THEN NoneVal ELSE Some(val)]

callback_args(v, control, val) ==
    CASE control = "prev"    -> prev_btn_callback(v)
      [] control = "next"    -> next_btn_callback(v)
      [] control = "refresh" -> refresh_btn_callback(v)
      [] control = "filter"  -> select_callback(v, val)

\* update(): the assignments to self before the re-render.
update_self(v, page, selected_filter) ==
    [v EXCEPT !.current_page = IF page # NoneVal THEN page[1] ELSE @,
              !.selected_filter = IF selected_filter # NoneVal
                                  THEN selected_filter ELSE @]

\* A control of message m fires.  The callback runs on the view the
\* activation is dispatched to, mutates it, and re-renders the message.
Activate(m, control, val, fail) ==
    /\ m \in MessageIds
    /\ messages[m].has_view
    /\ (control = "filter") => val \in FilterInputs
    /\ (control # "filter") => val = <<>>
    /\ fail \in Failures \ {"resolve"}
    /\ LET v    == ViewOf(m)
           args == callback_args(v, control, val)
           v2   == update_self(v, args.page, args.selected_filter)
           g    == messages[m].guild
           R    == roster(jobs, profiles, g)
           own  == views[m] # NoneVal
           vs1  == IF own THEN [views EXCEPT ![m] = Some(v2)] ELSE views
           more == /\ control = "next" /\ last.op = "next" /\ last.msg = m
                   /\ last.fail = "none" /\ last.run < MaxRun
       IN  /\ persistent' = IF own THEN persistent ELSE v2
           /\ messages' = udm_message(messages, R, m,
                                      v2.current_page, v2.selected_filter, fail)
           /\ views' = udm_views(vs1, R, g, m,
                                 v2.current_page, v2.selected_filter, fail)
           /\ last' = [NoOp EXCEPT !.op = control, !.guild = g, !.msg = m,
                                   !.fail = fail, !.notice = udm_notice(fail),
                                   !.shown = messages[m].embed.page,
                                   !.fresh = IF more THEN last.fresh ELSE Fresh(m),
                                   !.run = IF more THEN last.run + 1
                                           ELSE IF control = "next" THEN 1 ELSE 0,
                                   !.origin = IF more THEN last.origin
                                              ELSE messages[m].embed.page]
    /\ UNCHANGED << jobs, profiles, settings, tasks >>

\* The process restarts: the view store is rebuilt by setup_hook with the
\* one persistent view; the tables and the posted messages remain.
setup_hook ==
    /\ views' = [m \in MessageIds |-> NoneVal]
    /\ persistent' = DashboardView(0, 1, 0, NoneVal)
    /\ last' = [NoOp EXCEPT !.op = "restart"]
    /\ UNCHANGED << jobs, profiles, settings, messages, tasks >>

(***************************************************************************)
(* Slash commands.                                                         *)
(***************************************************************************)
\* Mutant of can_edit_others: any role at all grants the permission.
can_edit_others_AnyRole(roles) == roles # {}

can_edit_others(roles) == roles \cap GUILD_ROLES_CAN_EDIT_OTHERS # {}

\* Mutant of LevelInRange: the upper bound is not enforced.
LevelInRange_NoMax(niveau) == niveau >= 1

\* app_commands.Range[int, 1, 200]
LevelInRange(niveau) == niveau >= 1 /\ niveau <= 200

KnownMetier(metier) == norm(metier) \in EMOJI_BY_METIER

\* "membre and target.id != interaction.user.id and not can_edit_others(...)"
\* (membre = NoId stands for the omitted parameter).
EditRefused(user, roles, membre) ==
    membre # NoId /\ membre # user /\ ~can_edit_others(roles)

TargetOf(user, membre) == IF membre # NoId THEN membre ELSE user

\* How the refresh that follows a command ends, "fail" being the transient
\* failure of this run.
RefreshOutcome(S, g, fail) ==
    LET reg == get_dashboard(S, g)
    IN  IF ~Registered(S, g) THEN "skipped"
        ELSE IF ~Resolvable(g, reg[1], reg[2]) \/ fail = "resolve" THEN "resolve"
        ELSE fail

\* The transient failures that can occur in a refresh in the current state.
RefreshFailures(S, g) ==
    IF Registered(S, g) /\ Resolvable(g, get_dashboard(S, g)[1], get_dashboard(S, g)[2])
    THEN Failures ELSE {"none"}

\* Mutant of MutationResponses: the resolution of the recorded message is
\* outside the try block (as it is in /dashboard_refresh), so its failure
\* reaches on_app_command_error after the success message.
MutationResponses_NoTry(outcome) ==
    IF outcome = "resolve" THEN << "ok", "error" >> ELSE << "ok" >>

\* What the invoking user is sent by a mutating command whose store write
\* succeeded and whose refresh ended with "outcome": the success message,
\* since the try blocks of the command (resolution) and of
\* update_dashboard_message (render, edit) catch every exception.
MutationResponses(outcome) == << "ok" >>

\* Mutant of RefreshResponses: a resolution failure is swallowed and the
\* command reports success.
RefreshResponses_Silent(outcome) == << "refreshed" >>

\* What /dashboard_refresh sends: its resolution is in no try block, so a
\* resolution failure reaches on_app_command_error.
RefreshResponses(outcome) ==
    IF outcome = "resolve" THEN << "error" >> ELSE << "refreshed" >>

\* "ch_id, msg_id = get_dashboard(); if ch_id and msg_id: ... "
\* with update_dashboard_message(bot, guild, msg): page 0, no filter.
RefreshMessages(J, P, g, fail) ==
    LET reg == get_dashboard(settings, g)
        out == RefreshOutcome(settings, g, fail)
    IN  IF out \in {"skipped", "resolve"} THEN messages
        ELSE udm_message(messages, roster(J, P, g), reg[2], 0, NoneVal, out)

RefreshViews(J, P, g, fail) ==
    LET reg == get_dashboard(settings, g)
        out == RefreshOutcome(settings, g, fail)
    IN  IF out \in {"skipped", "resolve"} THEN views
        ELSE udm_views(views, roster(J, P, g), g, reg[2], 0, NoneVal, out)

Rejected(cmd, response) ==
    /\ last' = [cmd EXCEPT !.responses = << response >>]
    /\ UNCHANGED << jobs, profiles, settings, messages, views, persistent, tasks >>

Committed(cmd, g, J2, P2, fail) ==
    LET out == RefreshOutcome(settings, g, fail)
    IN  /\ jobs' = J2
        /\ profiles' = P2
        /\ messages' = RefreshMessages(J2, P2, g, fail)
        /\ views' = RefreshViews(J2, P2, g, fail)
        /\ last' = [cmd EXCEPT !.responses = MutationResponses(out),
                               !.msg = get_dashboard(settings, g)[2],
                               !.fail = out,
                               !.notice = udm_notice(out)]
        /\ UNCHANGED << settings, persistent, tasks >>

metier_set(g, user, roles, metier, niveau, membre, fail) ==
    LET cmd == [NoOp EXCEPT !.op = "metier_set", !.guild = g, !.user = user,
                            !.roles = roles, !.membre = membre,
                            !.metier = metier, !.niveau = niveau]
        target == TargetOf(user, membre)
    IN  IF ~LevelInRange(niveau) THEN fail = "none" /\ Rejected(cmd, "error")
        ELSE IF ~KnownMetier(metier) THEN fail = "none" /\ Rejected(cmd, "unknown")
        ELSE IF EditRefused(user, roles, membre)
        THEN fail = "none" /\ Rejected(cmd, "refused")
        ELSE /\ fail \in RefreshFailures(settings, g)
             /\ Committed(cmd, g, set_job(jobs, g, target, metier, niveau),
                          profiles, fail)

metier_remove(g, user, roles, metier, membre, fail) ==
    LET target == TargetOf(user, membre)
        cmd == [NoOp EXCEPT !.op = "metier_remove", !.guild = g, !.user = user,
                            !.roles = roles, !.membre = membre,
                            !.metier = metier,
                            !.held = \E r \in jobs : /\ r.guild_id = g
                                                     /\ r.user_id = target
                                                     /\ r.job_name = norm(metier)]
    IN  IF ~KnownMetier(metier) THEN fail = "none" /\ Rejected(cmd, "unknown")
        ELSE IF EditRefused(user, roles, membre)
        THEN fail = "none" /\ Rejected(cmd, "refused")
        ELSE /\ fail \in RefreshFailures(settings, g)
             /\ Committed(cmd, g, remove_job(jobs, g, target, metier),
                          profiles, fail)

profil_setname(g, user, pseudo_dofus, fail) ==
    LET cmd == [NoOp EXCEPT !.op = "profil_setname", !.guild = g, !.user = user,
                            !.metier = pseudo_dofus]
    IN  /\ fail \in RefreshFailures(settings, g)
        /\ Committed(cmd, g, jobs,
                     set_profile_name(profiles, g, user, str_strip(pseudo_dofus)),
                     fail)

\* /dashboard: publish the dashboard in the invoking channel, reusing the
\* registered message when it resolves.
dashboard(g, channel, action, manage_guild, fail) ==
    LET cmd == [NoOp EXCEPT !.op = "dashboard", !.guild = g, !.fail = fail]
        reg == get_dashboard(settings, g)
        reuse == /\ Registered(settings, g)
                 /\ Resolvable(g, reg[1], reg[2])
                 /\ fail # "resolve"
        R == roster(jobs, profiles, g)
        embed == build_dashboard_embed(R, 0, NoneVal)
        view == DashboardView(g, embed.total_pages, 0, NoneVal)
        posted == IF reuse THEN reg[2] ELSE Len(messages) + 1
    IN  /\ channel \in ChannelsOf(g)
        /\ fail \in {"none", "resolve", "render"}
        /\ (fail = "resolve") =>
              (Registered(settings, g) /\ Resolvable(g, reg[1], reg[2]))
        /\ IF ~manage_guild THEN fail = "none" /\ Rejected(cmd, "error")
           ELSE IF action # "setchannel" THEN fail = "none" /\ Rejected(cmd, "usage")
           ELSE IF fail = "render" THEN Rejected(cmd, "error")
           ELSE /\ reuse \/ PostedIn(g) < MaxMessages
                /\ messages' =
                     IF reuse
                     THEN [messages EXCEPT ![posted].embed = embed,
                                           ![posted].has_view = TRUE]
                     ELSE Append(messages, [guild |-> g, channel |-> channel,
                                            embed |-> embed, has_view |-> TRUE])
                /\ views' = IF reuse THEN [views EXCEPT ![posted] = Some(view)]
                            ELSE Append(views, Some(view))
                /\ settings' = set_dashboard(settings, g, channel, posted)
                /\ last' = [cmd EXCEPT !.msg = posted, !.responses = << "published" >>]
                /\ UNCHANGED << jobs, profiles, persistent, tasks >>

\* /dashboard_refresh
dashboard_refresh(g, manage_guild, fail) ==
    LET cmd == [NoOp EXCEPT !.op = "dashboard_refresh", !.guild = g]
        reg == get_dashboard(settings, g)
        out == RefreshOutcome(settings, g, fail)
    IN  IF ~manage_guild THEN fail = "none" /\ Rejected(cmd, "error")
        ELSE IF ~Registered(settings, g)
        THEN fail = "none" /\ Rejected(cmd, "not_configured")
        ELSE /\ fail \in RefreshFailures(settings, g)
             /\ messages' = RefreshMessages(jobs, profiles, g, fail)
             /\ views' = RefreshViews(jobs, profiles, g, fail)
             /\ last' = [cmd EXCEPT !.msg = reg[2], !.fail = out,
                                    !.notice = udm_notice(out),
                                    !.responses = RefreshResponses(out)]
             /\ UNCHANGED << jobs, profiles, settings, persistent, tasks >>

(***************************************************************************)
(* Initial states: a freshly started process over tables that are empty    *)
(* or were filled by earlier metier_set commands in guild 1.               *)
(***************************************************************************)
FilledJobs ==
    { [guild_id |-> 1, user_id |-> u, job_name |-> norm(S_paysan), level |-> 10 * u] :
        u \in 1..(NumUsers - 1) }
    \cup { [guild_id |-> 1, user_id |-> u, job_name |-> norm(S_mineur), level |-> 50] :
             u \in {1, 2} }

InitWith(J) ==
    /\ jobs = J
    /\ profiles = {}
    /\ settings = {}
    /\ messages = <<>>
    /\ views = <<>>
    /\ persistent = DashboardView(0, 1, 0, NoneVal)
    /\ tasks = <<>>
    /\ last = NoOp

(***************************************************************************)
(* Spec: the dashboard of one guild: control activations, restarts,        *)
(* publishing from two channels, and the commands of the member who is not *)
(* yet on the roster, whose refresh may fail to resolve the message.       *)
(***************************************************************************)
Init == InitWith(FilledJobs)

Next ==
    \/ \E m \in MessageIds, control \in Controls, val \in FilterInputs \cup {<<>>} :
          Activate(m, control, val, "none")
    \/ setup_hook
    \/ \E fail \in {"none", "resolve"} :
          metier_set(1, NumUsers, {"Membre"}, S_Paysan, 200, NoId, fail)
    \/ \E fail \in {"none", "resolve"} :
          metier_remove(1, NumUsers, {"Membre"}, S_Paysan, NoId, fail)
    \/ \E channel \in ChannelsOf(1) : dashboard(1, channel, "setchannel", TRUE, "none")
    \/ dashboard_refresh(1, TRUE, "none")

Spec == Init /\ [][Next]_vars

(***************************************************************************)
(* SpecCommands: the slash commands with all their inputs and transient    *)
(* failures, invoked by one member in one channel of one guild, starting   *)
(* from empty tables.                                                      *)
(***************************************************************************)
InitCommands == InitWith({})

\* The values of "membre": omitted, the invoker, another member.
MembreInputs == { NoId, NumUsers, 1 }

\* The (roles, membre, metier, niveau) of the commands: every roles and
\* membre with an accepted profession and level, and every profession and
\* level on the invoker's own records and, unprivileged, on another's.
CommandInputs ==
    { c \in [roles : RoleSets, membre : MembreInputs,
             metier : MetierInputs, niveau : LevelInputs] :
        \/ (c.metier = S_Paysan /\ c.niveau = 200)
        \/ (c.roles = {"Membre"} /\ c.membre \in {NoId, 1}) }

NextCommands ==
    \/ \E c \in CommandInputs, fail \in Failures :
          metier_set(1, NumUsers, c.roles, c.metier, c.niveau, c.membre, fail)
    \/ \E c \in { x \in CommandInputs : x.niveau = 200 }, fail \in Failures :
          metier_remove(1, NumUsers, c.roles, c.metier, c.membre, fail)
    \/ \E pseudo \in PseudoInputs, fail \in Failures :
          profil_setname(1, NumUsers, pseudo, fail)
    \/ \E action \in {"setchannel", "help"}, manage_guild \in BOOLEAN,
          fail \in {"none", "render"} :
          dashboard(1, 11, action, manage_guild, fail)
    \/ \E manage_guild \in BOOLEAN, fail \in Failures :
          dashboard_refresh(1, manage_guild, fail)

SpecCommands == InitCommands /\ [][NextCommands]_vars

(***************************************************************************)
(* SpecGuilds: the dashboards of two guilds, their controls and restarts.  *)
(***************************************************************************)
NextGuilds ==
    \/ \E m \in MessageIds, control \in Controls, val \in FilterInputs \cup {<<>>} :
          Activate(m, control, val, "none")
    \/ setup_hook
    \/ \E g \in {1, 2} : dashboard(g, 10 * g + 1, "setchannel", TRUE, "none")

SpecGuilds == Init /\ [][NextGuilds]_vars

(***************************************************************************)
(* SpecFailures: the re-renders of one guild's dashboard (control          *)
(* activations and /dashboard_refresh) with their transient failures.      *)
(***************************************************************************)
NextFailures ==
    \/ \E m \in MessageIds, control \in Controls, val \in FilterInputs \cup {<<>>},
          fail \in Failures \ {"resolve"} :
          Activate(m, control, val, fail)
    \/ setup_hook
    \/ dashboard(1, 11, "setchannel", TRUE, "none")
    \/ \E fail \in Failures : dashboard_refresh(1, TRUE, fail)

SpecFailures == Init /\ [][NextFailures]_vars

(***************************************************************************)
(* SpecRosters: the projection of rosters of every size from empty to      *)
(* three pages.  The tables were filled by earlier metier_set commands:    *)
(* in guild 1 the members 1..n hold "paysan" (at distinct levels, or all   *)
(* at the same level) and members 1 and 2 hold "mineur" too; guild 2 has   *)
(* records of member 1 and of a member who is not in guild 1.              *)
(***************************************************************************)
\* The largest number of members on the roster of guild 1.
MaxRoster == 13

RosterTable(n, distinct) ==
    { [guild_id |-> 1, user_id |-> u, job_name |-> norm(S_paysan),
       level |-> IF distinct THEN 10 * u ELSE 100] : u \in 1..n }
    \cup { [guild_id |-> 1, user_id |-> u, job_name |-> norm(S_mineur), level |-> 50] :
             u \in {1, 2} \cap 1..n }
    \cup { [guild_id |-> 2, user_id |-> 1, job_name |-> norm(S_mineur), level |-> 200],
           [guild_id |-> 2, user_id |-> n + 1, job_name |-> norm(S_paysan), level |-> 5] }

InitRosters == \E n \in 0..MaxRoster, distinct \in BOOLEAN : InitWith(RosterTable(n, distinct))

NextRosters ==
    \/ \E m \in MessageIds, control \in Controls, val \in FilterInputs \cup {<<>>} :
          Activate(m, control, val, "none")
    \/ dashboard(1, 11, "setchannel", TRUE, "none")

SpecRosters == InitRosters /\ [][NextRosters]_vars

(***************************************************************************)
(* SpecNorm: norm applied to a string, and again to its result (as the     *)
(* projection does to the job names that set_job stored normalized).       *)
(***************************************************************************)
\* The longest string built from NormAlphabet.
MaxNormLen == 2

\* Letters of both cases, accented characters of ACCENT_MAP in both cases,
\* and whitespace.
NormAlphabet == { " ", "a", "Z", "é", "É", "ç", "Ü", "ï" }

\* The spellings of catalog key k that differ from it in case, accents or
\* surrounding whitespace only.
Unaccented(s) ==
    [i \in 1..Len(s) |->
        IF \E j \in 1..Len(ACCENT_MAP) : ACCENT_MAP[j][1] = s[i]
        THEN ACCENT_MAP[CHOOSE j \in 1..Len(ACCENT_MAP) : ACCENT_MAP[j][1] = s[i]][2]
        ELSE s[i]]

VariantsOf(k) ==
    { k, str_upper(k), str_capitalize(k), <<" ">> \o str_capitalize(k),
      Unaccented(k), str_upper(Unaccented(k)) }

CatalogVariants == UNION { VariantsOf(k) : k \in EMOJI_BY_METIER }

NormInputs ==
    UNION { [1..n -> NormAlphabet] : n \in 0..MaxNormLen } \cup CatalogVariants

InitNorm ==
    \E s \in NormInputs :
        /\ jobs = {}
        /\ profiles = {}
        /\ settings = {}
        /\ messages = <<>>
        /\ views = <<>>
        /\ persistent = DashboardView(0, 1, 0, NoneVal)
        /\ tasks = <<>>
        /\ last = [NoOp EXCEPT !.metier = s]

\* norm is called on the input, then on what it returned.
norm_call ==
    /\ Len(last.responses) < 2
    /\ last' = [last EXCEPT
                  !.op = "norm",
                  !.responses = Append(@, norm(IF @ = <<>> THEN last.metier
                                               ELSE @[Len(@)]))]
    /\ UNCHANGED << jobs, profiles, settings, messages, views, persistent, tasks >>

SpecNorm == InitNorm /\ [][norm_call]_vars

(***************************************************************************)
(* SpecAsync: handlers interleaved at the awaits of their re-render.  A    *)
(* handler runs up to "roster = await db.roster(guild.id)" of              *)
(* build_dashboard_embed, is resumed to read the roster and build the      *)
(* embed up to "await message.edit(embed=embed, view=view)", and is        *)
(* resumed again to edit the message.  Other handlers run in between.      *)
(***************************************************************************)
\* The most handlers suspended at once.
MaxTasks == 2

\* The handler of "op", suspended in update_dashboard_message(bot, guild,
\* message, page, job_filter) before the roster read.
Task(op, g, m, page, job_filter) ==
    [op |-> op, guild |-> g, msg |-> m, page |-> page, job_filter |-> job_filter,
     pc |-> "read", embed |-> NoneVal]

RemoveAt(seq, i) == SubSeq(seq, 1, i - 1) \o SubSeq(seq, i + 1, Len(seq))

\* metier_set up to the roster read of its refresh: the checks, the store
\* write, the response and the resolution of the registered message.
metier_set_begin(g, user, roles, metier, niveau, membre) ==
    LET reg == get_dashboard(settings, g)
    IN  /\ Len(tasks) < MaxTasks
        /\ LevelInRange(niveau) /\ KnownMetier(metier)
        /\ ~EditRefused(user, roles, membre)
        /\ Registered(settings, g) /\ Resolvable(g, reg[1], reg[2])
        /\ jobs' = set_job(jobs, g, TargetOf(user, membre), metier, niveau)
        /\ tasks' = Append(tasks, Task("metier_set", g, reg[2], 0, NoneVal))
        /\ last' = [NoOp EXCEPT !.op = "metier_set", !.guild = g, !.user = user,
                                !.roles = roles, !.membre = membre,
                                !.metier = metier, !.niveau = niveau,
                                !.msg = reg[2], !.responses = << "ok" >>]
        /\ UNCHANGED << profiles, settings, messages, views, persistent >>

metier_remove_begin(g, user, roles, metier, membre) ==
    LET reg == get_dashboard(settings, g)
    IN  /\ Len(tasks) < MaxTasks
        /\ KnownMetier(metier)
        /\ ~EditRefused(user, roles, membre)
        /\ Registered(settings, g) /\ Resolvable(g, reg[1], reg[2])
        /\ jobs' = remove_job(jobs, g, TargetOf(user, membre), metier)
        /\ tasks' = Append(tasks, Task("metier_remove", g, reg[2], 0, NoneVal))
        /\ last' = [NoOp EXCEPT !.op = "metier_remove", !.guild = g, !.user = user,
                                !.roles = roles, !.membre = membre,
                                !.metier = metier,
                                !.msg = reg[2], !.responses = << "ok" >>]
        /\ UNCHANGED << profiles, settings, messages, views, persistent >>

\* A control callback up to the roster read: update() has assigned
\* current_page and selected_filter of the view it was dispatched to.
Activate_begin(m, control, val) ==
    /\ Len(tasks) < MaxTasks
    /\ m \in MessageIds
    /\ messages[m].has_view
    /\ (control = "filter") => val \in FilterInputs
    /\ (control # "filter") => val = <<>>
    /\ LET v    == ViewOf(m)
           args == callback_args(v, control, val)
           v2   == update_self(v, args.page, args.selected_filter)
           own  == views[m] # NoneVal
       IN  /\ persistent' = IF own THEN persistent ELSE v2
           /\ views' = IF own THEN [views EXCEPT ![m] = Some(v2)] ELSE views
           /\ tasks' = Append(tasks, Task(control, messages[m].guild, m,
                                          v2.current_page, v2.selected_filter))
           /\ last' = [NoOp EXCEPT !.op = control, !.guild = messages[m].guild,
                                   !.msg = m, !.shown = messages[m].embed.page]
    /\ UNCHANGED << jobs, profiles, settings, messages >>

\* Handler i is resumed at the roster read and builds the embed.
udm_read(i) ==
    /\ i \in 1..Len(tasks)
    /\ tasks[i].pc = "read"
    /\ tasks' = [tasks EXCEPT
                   ![i].pc = "edit",
                   ![i].embed = Some(build_dashboard_embed(
                                       roster(jobs, profiles, tasks[i].guild),
                                       tasks[i].page, tasks[i].job_filter))]
    /\ last' = [NoOp EXCEPT !.op = "roster", !.guild = tasks[i].guild,
                            !.msg = tasks[i].msg]
    /\ UNCHANGED << jobs, profiles, settings, messages, views, persistent >>

\* Handler i is resumed at the message edit and completes.
udm_edit(i) ==
    /\ i \in 1..Len(tasks)
    /\ tasks[i].pc = "edit"
    /\ LET t == tasks[i]
       IN  /\ messages' = [messages EXCEPT ![t.msg].embed = t.embed[1],
                                           ![t.msg].has_view = TRUE]
           /\ views' = [views EXCEPT ![t.msg] =
                          Some(DashboardView(t.guild, t.embed[1].total_pages,
                                             t.page, t.job_filter))]
           /\ last' = [NoOp EXCEPT !.op = "edit", !.guild = t.guild, !.msg = t.msg]
    /\ tasks' = RemoveAt(tasks, i)
    /\ UNCHANGED << jobs, profiles, settings, persistent >>

NextAsync ==
    \/ dashboard(1, 11, "setchannel", TRUE, "none")
    \/ metier_set_begin(1, NumUsers, {"Membre"}, S_Paysan, 200, NoId)
    \/ metier_remove_begin(1, NumUsers, {"Membre"}, S_Paysan, NoId)
    \/ \E m \in MessageIds, control \in {"refresh", "next"} :
          Activate_begin(m, control, <<>>)
    \/ \E i \in 1..MaxTasks : udm_read(i)
    \/ \E i \in 1..MaxTasks : udm_edit(i)

SpecAsync == Init /\ [][NextAsync]_vars

(***************************************************************************)
(* Properties.                                                             *)
(***************************************************************************)
EmbedOf(m) == messages[m].embed

MutatingOps == { "metier_set", "metier_remove", "profil_setname" }

RefreshFailed == { "resolve", "render", "edit", "edit_all" }

\* C1: when the filter select fires with value F, the message is
\* re-rendered with page 0 and filter F, and with no filter when F is
\* "__all", whatever filter the view had before.
C1_SelectFilter ==
    [][ \A m \in MessageIds, val \in FilterInputs :
          Activate(m, "filter", val, "none") =>
             /\ messages'[m].embed.page = 0
             /\ messages'[m].embed.filter = (IF val = S_all THEN NoneVal ELSE val) ]_vars

\* C2: after a successful mutating command whose refresh re-rendered the
\* registered dashboard, the dashboard shows the filter it showed before
\* and the page it showed before, clamped to the new page count.
C2_MutationKeepsView ==
    [][ (last'.op \in MutatingOps /\ last'.responses = << "ok" >> /\ last'.fail = "none")
          => /\ messages'[last'.msg].embed.filter = EmbedOf(last'.msg).filter
             /\ messages'[last'.msg].embed.page =
                   clamp_page(EmbedOf(last'.msg).page,
                              messages'[last'.msg].embed.total_pages) ]_vars

\* C3: for a message showing page p whose own view handles the activation,
\* next renders (p + 1) mod T and prev renders (p - 1) mod T, T being the
\* page count of the roster read at activation time under the view's filter.
C3_NavUsesCurrentTotal ==
    [][ \A m \in MessageIds :
          (views[m] # NoneVal /\ views[m][1].current_page = EmbedOf(m).page) =>
            LET T == total_pages_of(roster(jobs, profiles, messages[m].guild),
                                    views[m][1].selected_filter)
                p == EmbedOf(m).page
            IN  /\ Activate(m, "next", <<>>, "none") => messages'[m].embed.page = (p + 1) % T
                /\ Activate(m, "prev", <<>>, "none") => messages'[m].embed.page = (p - 1) % T
      ]_vars

\* C4: a refresh activation re-renders the message with the filter it
\* showed and the page it showed (clamped to the new page count), also when
\* it is the first activation handled after a restart.
C4_RefreshKeepsView ==
    [][ \A m \in MessageIds :
          Activate(m, "refresh", <<>>, "none") =>
             /\ messages'[m].embed.filter = EmbedOf(m).filter
             /\ messages'[m].embed.page = clamp_page(EmbedOf(m).page, messages'[m].embed.total_pages)
      ]_vars

\* The {page, filterKey} from which an activation on message m transitions.
HandlerState(m) ==
    [page |-> ViewOf(m).current_page, filter |-> ViewOf(m).selected_filter]

\* C5: an activation on message m1 never changes the {page, filterKey} from
\* which a later activation on another message m2 transitions.
C5_ViewStatePerMessage ==
    [][ \A m1 \in MessageIds, control \in Controls, val \in FilterInputs \cup {<<>>} :
          Activate(m1, control, val, "none") =>
             \A m2 \in MessageIds \ {m1} : HandlerState(m2)' = HandlerState(m2) ]_vars

\* C6: after a publish command the registration names the message that was
\* edited or posted and the channel that contains it, so that the lookup by
\* (channel id, message id) resolves it.
C6_RegistrationLive ==
    (last.op = "dashboard" /\ last.responses = << "published" >>) =>
        LET reg == get_dashboard(settings, last.guild)
        IN  /\ reg[2] = last.msg
            /\ reg[1] = messages[last.msg].channel
            /\ Resolvable(last.guild, reg[1], reg[2])

\* C7: set-profession and remove-profession accept every case/accent
\* variant of every catalog key as a known profession.
C7_CatalogVariantsKnown ==
    (last.op \in {"metier_set", "metier_remove"} /\ last.metier \in CatalogVariants)
       => last.responses # << "unknown" >>

\* C8: a set-profession or remove-profession command whose profession key
\* is not in the catalog or whose level is outside [1,200] is answered with
\* an error and changes neither the tables nor the messages.
C8_ValidationNoChange ==
    [][ ( \/ /\ last'.op = "metier_set"
             /\ (last'.niveau < 1 \/ last'.niveau > 200
                   \/ norm(last'.metier) \notin EMOJI_BY_METIER)
          \/ /\ last'.op = "metier_remove"
             /\ norm(last'.metier) \notin EMOJI_BY_METIER )
        => /\ last'.responses \in { << "error" >>, << "unknown" >> }
           /\ UNCHANGED << jobs, profiles, settings, messages >> ]_vars

C8_Witness ==
    /\ last.op = "metier_set"
    /\ last.niveau = 201
    /\ last.responses = << "error" >>
    /\ jobs # {}
    /\ Registered(settings, 1)

JobsOf(J, u) == { r \in J : r.user_id = u }

\* C9: a command changes the job records of a member other than its invoker
\* only if the invoker holds "Lead" or "Murmureur", and a command on the
\* invoker's own records (membre omitted or the invoker) is never refused.
C9_EditPermission ==
    [][ /\ \A u \in 1..NumUsers :
              (JobsOf(jobs', u) # JobsOf(jobs, u) /\ u # last'.user)
                 => ("Lead" \in last'.roles \/ "Murmureur" \in last'.roles)
        /\ ( /\ last'.op \in {"metier_set", "metier_remove"}
             /\ last'.membre \in {NoId, last'.user} )
           => last'.responses # << "refused" >> ]_vars

C9_Witness ==
    /\ last.op = "metier_set"
    /\ last.responses = << "ok" >>
    /\ last.membre = 1
    /\ "Murmureur" \in last.roles
    /\ \E r \in jobs : r.user_id = 1

\* What the accepted command last' records writes to the tables.
WrittenJobs ==
    LET target == TargetOf(last'.user, last'.membre)
    IN  CASE last'.op = "metier_set" ->
               set_job(jobs, last'.guild, target, last'.metier, last'.niveau)
          [] last'.op = "metier_remove" ->
               remove_job(jobs, last'.guild, target, last'.metier)
          [] OTHER -> jobs

WrittenProfiles ==
    IF last'.op = "profil_setname"
    THEN set_profile_name(profiles, last'.guild, last'.user, str_strip(last'.metier))
    ELSE profiles

\* C10: when the refresh that follows an accepted mutating command fails
\* (message unresolvable, render or edit failure), the store write is
\* committed and the invoking user has received the success response only.
C10_RefreshFailureSwallowed ==
    [][ (last'.op \in MutatingOps /\ last'.fail \in RefreshFailed) =>
          /\ last'.responses = << "ok" >>
          /\ jobs' = WrittenJobs
          /\ profiles' = WrittenProfiles ]_vars

C10_Witness ==
    /\ last.op = "metier_set"
    /\ last.fail = "render"
    /\ last.responses = << "ok" >>
    /\ \E r \in jobs : r.level = 200

\* C11: when a step of a re-render fails (roster read, projection,
\* rendering or message edit), the message is left without its control set
\* and the diagnostic notice has been posted in its channel.
C11_FailedRenderStripsControls ==
    [][ ( /\ last'.op \in Controls \cup MutatingOps \cup {"dashboard_refresh"}
          /\ last'.fail \in {"render", "edit", "edit_all"} )
        => /\ ~messages'[last'.msg].has_view
           /\ last'.notice ]_vars

\* C12: when the recorded channel or message cannot be resolved in
\* /dashboard_refresh or in the refresh that follows a mutating command, the
\* settings table is unchanged and no message is posted; /dashboard_refresh
\* answers the invoking user with the error.
C12_UnresolvableKeepsRegistration ==
    [][ ( /\ last'.op \in MutatingOps \cup {"dashboard_refresh"}
          /\ last'.fail = "resolve" )
        => /\ settings' = settings
           /\ Len(messages') = Len(messages)
           /\ messages' = messages
           /\ (last'.op = "dashboard_refresh" => last'.responses = << "error" >>) ]_vars

C12_Witness ==
    /\ last.op = "dashboard_refresh"
    /\ last.fail = "resolve"
    /\ last.responses = << "error" >>
    /\ Registered(settings, 1)
    /\ jobs # {}

\* The page count the specification gives for a list of n cards: the least
\* t >= 1 with t pages of CARDS_PER_PAGE cards holding them all.
PagesFor(n) ==
    CHOOSE t \in 1..(n + 1) :
        /\ CARDS_PER_PAGE * t >= n
        /\ (t = 1 \/ CARDS_PER_PAGE * (t - 1) < n)

\* The cards of pages p, p+1, ..., T-1 of the embed, one after the other.
RECURSIVE ConcatPages(_, _, _, _)
ConcatPages(R, job_filter, p, T) ==
    IF p >= T THEN <<>>
    ELSE build_dashboard_embed(R, p, job_filter).fields
            \o ConcatPages(R, job_filter, p + 1, T)

\* The card of roster entry e listing the jobs that satisfy Shown.
CardOf(e, Shown(_)) ==
    [uid |-> e.uid, name |-> e.name, lines |-> SelectSeq(e.jobs, Shown)]

\* C13: with no filter, the cards of pages 0..totalPages-1 are, in roster
\* order, exactly the roster entries, every page has at most CARDS_PER_PAGE
\* cards, and totalPages is ceil(|R| / CARDS_PER_PAGE), or 1 for an empty R.
C13_PaginationPartitions ==
    LET R == roster(jobs, profiles, 1)
        T == PagesFor(Len(R))
        EveryJob(j) == TRUE
    IN  /\ \A p \in 0..(T - 1) :
              /\ build_dashboard_embed(R, p, NoneVal).total_pages = T
              /\ build_dashboard_embed(R, p, NoneVal).page = p
              /\ Len(build_dashboard_embed(R, p, NoneVal).fields) <= CARDS_PER_PAGE
        /\ ConcatPages(R, NoneVal, 0, T) = [i \in 1..Len(R) |-> CardOf(R[i], EveryJob)]

C13_Witness ==
    /\ Len(roster(jobs, profiles, 1)) = 7
    /\ \E m \in MessageIds :
          /\ messages[m].embed.total_pages = 2
          /\ messages[m].embed.page = 1
          /\ Len(messages[m].embed.fields) = 1
          /\ messages[m].embed.filter = NoneVal

\* Filter keys: held by two members, held by all, held by nobody.
FilterKeys == { S_mineur, S_paysan, <<"b","u","c","h","e","r","o","n">> }

\* C14: with filter key F, the cards of all pages are, in roster order,
\* exactly the roster entries holding a job whose normalized name is F, each
\* card lists the matching job only, and the profile count and totalPages
\* are those of the filtered list.
C14_FilteredProjection ==
    LET R == roster(jobs, profiles, 1)
    IN  \A F \in FilterKeys :
          LET Match(j) == norm(j[1]) = F
              Holds(e) == \E i \in 1..Len(e.jobs) : Match(e.jobs[i])
              kept == SelectSeq(R, Holds)
              T == PagesFor(Len(kept))
          IN  /\ ConcatPages(R, Some(F), 0, T) =
                    [i \in 1..Len(kept) |-> CardOf(kept[i], Match)]
              /\ \A p \in 0..(T - 1) :
                    /\ build_dashboard_embed(R, p, Some(F)).count = Len(kept)
                    /\ build_dashboard_embed(R, p, Some(F)).total_pages = T
                    /\ build_dashboard_embed(R, p, Some(F)).filter = F

C14_Witness ==
    /\ Len(roster(jobs, profiles, 1)) = 7
    /\ \E m \in MessageIds :
          /\ messages[m].embed.filter = S_mineur
          /\ messages[m].embed.count = 2
          /\ messages[m].embed.total_pages = 1
          /\ Len(messages[m].embed.fields) = 2
          /\ \A i \in 1..2 : Len(messages[m].embed.fields[i].lines) = 1

\* The sum of the levels of a set of job rows.
RECURSIVE LevelSum(_)
LevelSum(rows) ==
    IF rows = {} THEN 0
    ELSE LET r == CHOOSE x \in rows : TRUE IN r.level + LevelSum(rows \ {r})

\* C16: roster(guild) has exactly one entry per user holding a job record of
\* that guild, the entry carries that user's records of that guild and the
\* arithmetic mean of their levels, and the entries are ordered by mean
\* descending, then user id ascending.
C16_RosterQuery ==
    \A g \in {1, 2} :
      LET R == roster(jobs, profiles, g)
          RowsOf(u) == { r \in jobs : r.guild_id = g /\ r.user_id = u }
          holders == { r.user_id : r \in { x \in jobs : x.guild_id = g } }
      IN  /\ { R[i].uid : i \in 1..Len(R) } = holders
          /\ Len(R) = Cardinality(holders)
          /\ \A i \in 1..Len(R) :
                /\ { R[i].jobs[k] : k \in 1..Len(R[i].jobs) } =
                      { << r.job_name, r.level >> : r \in RowsOf(R[i].uid) }
                /\ Len(R[i].jobs) = Cardinality(RowsOf(R[i].uid))
                /\ R[i].avg[2] > 0
                /\ R[i].avg[1] * Cardinality(RowsOf(R[i].uid)) =
                      LevelSum(RowsOf(R[i].uid)) * R[i].avg[2]
          /\ \A i, j \in 1..Len(R) :
                i < j =>
                   \/ R[i].avg[1] * R[j].avg[2] > R[j].avg[1] * R[i].avg[2]
                   \/ /\ R[i].avg[1] * R[j].avg[2] = R[j].avg[1] * R[i].avg[2]
                      /\ R[i].uid < R[j].uid

\* A published roster with two members of equal mean, one of them holding
\* two jobs, while the table has records of another guild.
C16_Witness ==
    LET R == roster(jobs, profiles, 1)
    IN  /\ last.op = "dashboard"
        /\ last.responses = << "published" >>
        /\ \E r \in jobs : r.guild_id = 2
        /\ \E i, j \in 1..Len(R) :
              /\ i < j
              /\ R[i].avg[1] * R[j].avg[2] = R[j].avg[1] * R[i].avg[2]
              /\ Len(R[i].jobs) = 2
              /\ Len(R[j].jobs) = 1

\* The pages requested of the projection: from below 0 to beyond the last.
PageInputs(T) == (0 - 2)..(T + 1)

\* C19: for every requested page and filter, the rendered page is the
\* request clamped into [0, totalPages-1]; a (filtered) roster with no entry
\* gives totalPages 1, page 0 and the "no profiles" body with no card.
C19_ClampedProjection ==
    LET R == roster(jobs, profiles, 1)
    IN  \A job_filter \in {NoneVal} \cup { Some(F) : F \in FilterKeys } :
          LET Holds(e) == \E i \in 1..Len(e.jobs) : norm(e.jobs[i][1]) = job_filter[1]
              n == IF job_filter = NoneVal THEN Len(R) ELSE Len(SelectSeq(R, Holds))
              T == PagesFor(n)
          IN  \A page \in PageInputs(T) :
                LET e == build_dashboard_embed(R, page, job_filter)
                IN  /\ e.total_pages = T
                    /\ e.page = (IF page < 0 THEN 0
                                 ELSE IF page > T - 1 THEN T - 1 ELSE page)
                    /\ (n = 0) => (T = 1 /\ e.page = 0 /\ e.empty /\ e.fields = <<>>)
                    /\ (n > 0) => (~e.empty /\ e.fields # <<>>)

\* The dashboard was published for a guild with no job record.
C19_Witness ==
    /\ roster(jobs, profiles, 1) = <<>>
    /\ last.op = "dashboard"
    /\ last.msg \in MessageIds
    /\ messages[last.msg].embed.empty
    /\ messages[last.msg].embed.fields = <<>>
    /\ messages[last.msg].embed.total_pages = 1
    /\ messages[last.msg].embed.page = 0

C17_RemoveAbsentNoOp ==
    [][ (last'.op = "metier_remove") =>
          /\ ( /\ last'.metier \in CatalogVariants
               /\ ~ \E r \in jobs :
                      /\ r.guild_id = last'.guild
                      /\ r.user_id = TargetOf(last'.user, last'.membre)
                      /\ r.job_name = norm(last'.metier) )
             => /\ UNCHANGED << jobs, profiles, settings >>
                /\ last'.responses # << "error" >>
                /\ ( /\ norm(last'.metier) \in EMOJI_BY_METIER
                     /\ (last'.membre \in {NoId, last'.user}
                           \/ last'.roles \cap {"Lead", "Murmureur"} # {}) )
                   => last'.responses = << "ok" >>
          /\ \A u \in 1..NumUsers :
                (~ \E r \in jobs : /\ r.guild_id = 1 /\ r.user_id = u
                                   /\ r.job_name = norm(last'.metier))
                   => remove_job(jobs, 1, u, last'.metier) = jobs ]_vars

\* An accepted remove command for a job its target did not hold, on a table
\* holding that job for another member.
C17_Witness ==
    /\ last.op = "metier_remove"
    /\ last.responses = << "ok" >>
    /\ ~last.held
    /\ \E r \in jobs : r.job_name = norm(last.metier)
                        /\ r.user_id # TargetOf(last.user, last.membre)

\* C18: norm applied to the result of norm returns it unchanged, and the
\* case, accent and whitespace variants of one catalog name all have the
\* same norm.
C18_NormIdempotent ==
    (last.op = "norm") =>
        /\ (Len(last.responses) = 2) => (last.responses[2] = last.responses[1])
        /\ \A k \in EMOJI_BY_METIER :
              (last.metier \in VariantsOf(k)) =>
                 \A v \in VariantsOf(k) : norm(v) = last.responses[1]

\* norm was applied twice, starting from an upper-case accented spelling.
C18_Witness ==
    /\ last.op = "norm"
    /\ last.metier = <<"P","Ê","C","H","E","U","R">>
    /\ last.responses = << <<"p","e","c","h","e","u","r">>,
                           <<"p","e","c","h","e","u","r">> >>

\* C20: whenever no handler is suspended, the registered dashboard message
\* of the guild displays the projection of the roster that is in the store.
C20_QuiescentConsistency ==
    (tasks = <<>>) =>
        \A m \in MessageIds :
            (get_dashboard(settings, messages[m].guild)[2] = m) => Fresh(m)

\* C21: for every message with a control set attached, the view that
\* handles its activations has 0 <= current_page < total_pages, and its
\* current_page, total_pages and selected_filter are the page, the page
\* count and the filter displayed in the message's embed.
C21_PayloadControlAgreement ==
    \A m \in MessageIds :
        messages[m].has_view =>
            LET v == ViewOf(m)
                e == messages[m].embed
            IN  /\ 0 <= v.current_page
                /\ v.current_page < v.total_pages
                /\ v.current_page = e.page
                /\ v.total_pages = e.total_pages
                /\ e.filter = (IF FilterActive(v.selected_filter)
                               THEN job_filter_norm_of(v.selected_filter)
                               ELSE NoneVal)

\* C22: /dashboard_refresh answers "Dashboard rafraîchi." only if the
\* registered message was re-rendered (fresh embed of the stored roster and
\* control set attached), and answers with an error and no success message
\* when the re-render failed.
C22_RefreshSuccessReported ==
    [][ (last'.op = "dashboard_refresh") =>
          /\ (\E i \in 1..Len(last'.responses) : last'.responses[i] = "refreshed")
             => /\ last'.fail = "none"
                /\ messages'[last'.msg].has_view
                /\ messages'[last'.msg].embed =
                      build_dashboard_embed(roster(jobs', profiles', last'.guild),
                                            0, NoneVal)
          /\ (last'.fail \in RefreshFailed) => (last'.responses = << "error" >>) ]_vars

====
